---- MODULE Spec2Model ----
(***************************************************************************)
(* NetworkInterfaceMonitor: a monitor object that watches one network      *)
(* interface for IP changes.  The model holds the fields of one monitor    *)
(* instance, the native notification layer (iphlpapi), the event loop's    *)
(* pending timers and the operating system's list of bound addresses.      *)
(***************************************************************************)
EXTENDS Integers, Sequences, FiniteSets, TLC

(***************************************************************************)
(* Bounds of the model.                                                    *)
(***************************************************************************)
\* The longest list of addresses os.networkInterfaces() reports for the interface.
MaxAddrs == 2
\* The largest value given to the ipCheckTimerMaxTries setter.
MaxTriesBound == 1
\* The most native notifications queued for delivery to the event loop.
MaxPending == 1

(***************************************************************************)
(* Addresses are texts: sequences of characters, as os.networkInterfaces() *)
(* reports them (IPv6 in the compressed lower-case form, leading zeros of  *)
(* a group dropped).                                                       *)
(***************************************************************************)
V4Real1 == <<"1","0",".","0",".","0",".","1">>                  \* 10.0.0.1
V4Real2 == <<"1","0",".","0",".","0",".","2">>                  \* 10.0.0.2
V4Link  == <<"1","6","9",".","2","5","4",".","1",".","5">>      \* 169.254.1.5
V4Near  == <<"1","6","9",".","2","5",".","4",".","1">>          \* 169.25.4.1
V6Real  == <<"2","0","0","1",":","d","b","8",":",":","1">>      \* 2001:db8::1
V6Link  == <<"f","e","8","0",":",":","1">>                      \* fe80::1
V6LinkB == <<"f","e","b","f",":",":","1">>                      \* febf::1
V6Site  == <<"f","e","c","0",":",":","1">>                      \* fec0::1
V6Short == <<"f","e","8",":",":","1">>                          \* fe8::1, i.e. 0fe8::1

IP(family, address) == [family |-> family, address |-> address]

\* The addresses the environment binds to the monitored interface.
Pool ==
    { IP("IPv4", V4Real1), IP("IPv4", V4Real2), IP("IPv4", V4Link),
      IP("IPv6", V6Real), IP("IPv6", V6Link) }

\* The addresses the resolver is exercised on.
ResolverPool ==
    { IP("IPv4", V4Real1), IP("IPv4", V4Link), IP("IPv4", V4Near),
      IP("IPv6", V6Real), IP("IPv6", V6Link), IP("IPv6", V6LinkB),
      IP("IPv6", V6Site), IP("IPv6", V6Short) }

\* The lists of up to MaxAddrs distinct addresses of a pool.  Entries of one
\* family come in any order; entries of different families never meet in
\* getIP, so the lists keep the IPv4 entries before the IPv6 entries.
AddrLists(pool) ==
    { l \in UNION { [1..n -> pool] : n \in 0..MaxAddrs } :
        \A i, j \in 1..Len(l) :
            /\ i # j => l[i] # l[j]
            /\ i < j => ~(l[i].family = "IPv6" /\ l[j].family = "IPv4") }

Families == {"IPv4", "IPv6"}
AddressFamilies == {"IPv4", "IPv6", "Any"}

(***************************************************************************)
(* EventType (lines 11-16).                                                *)
(***************************************************************************)
EventType == [Initial |-> 0, IPChanged |-> 1, IPAssigned |-> 2, IPRemoved |-> 3]

\* JavaScript null, for an address object and for a reference.
NULL == [null |-> TRUE]
\* The object literal {} that getIP starts its result from.
EmptyObject == [f \in {} |-> <<>>]

(***************************************************************************)
(* String.prototype.startsWith on character sequences.                     *)
(***************************************************************************)
StartsWith(s, p) == Len(s) >= Len(p) /\ SubSeq(s, 1, Len(p)) = p

(***************************************************************************)
(* isLinkLocalAddress (lines 267-274): a test on the text of the address.  *)
(* `address && ...` is false for the empty text.                           *)
(***************************************************************************)
isLinkLocalAddress(address, addressFamily) ==
    IF addressFamily = "IPv4"
    THEN address # <<>> /\ StartsWith(address, <<"1","6","9",".","2","5","4">>)
    ELSE IF addressFamily = "IPv6"
    THEN address # <<>> /\ ( \/ StartsWith(address, <<"f","e","8">>)
                            \/ StartsWith(address, <<"f","e","9">>)
                            \/ StartsWith(address, <<"f","e","a">>)
                            \/ StartsWith(address, <<"f","e","b">>) )
    ELSE FALSE

\* result[key] = value on an object.
Put(obj, key, value) ==
    [f \in (DOMAIN obj) \cup {key} |-> IF f = key THEN value ELSE obj[f]]

(***************************************************************************)
(* The loop of getIP (lines 241-252) over the interface's entries in       *)
(* order: a later entry of a family overwrites an earlier one.             *)
(***************************************************************************)
RECURSIVE GetIPLoop(_, _, _, _, _)
GetIPLoop(ips, addressFamily, allowLinkLocalAddress, result, hasLinkLocalAddress) ==
    IF ips = <<>>
    THEN [result |-> result, hasLinkLocalAddress |-> hasLinkLocalAddress]
    ELSE LET ip == Head(ips) IN
         IF addressFamily = ip.family \/ addressFamily = "Any"
         THEN IF ~isLinkLocalAddress(ip.address, ip.family)
              THEN GetIPLoop(Tail(ips), addressFamily, allowLinkLocalAddress,
                             Put(result, ip.family, ip.address), hasLinkLocalAddress)
              ELSE GetIPLoop(Tail(ips), addressFamily, allowLinkLocalAddress,
                             IF allowLinkLocalAddress
                             THEN Put(result, ip.family, ip.address)
                             ELSE result,
                             [hasLinkLocalAddress EXCEPT ![ip.family] = TRUE])
         ELSE GetIPLoop(Tail(ips), addressFamily, allowLinkLocalAddress,
                        result, hasLinkLocalAddress)

(***************************************************************************)
(* getIP (lines 232-259), on the list os.networkInterfaces() holds for the *)
(* monitored interface (the empty list for an unknown interface).          *)
(***************************************************************************)
getIP(ips, addressFamily, allowLinkLocalAddress) ==
    LET r == GetIPLoop(ips, addressFamily, allowLinkLocalAddress, EmptyObject,
                       [IPv4 |-> FALSE, IPv6 |-> FALSE])
    IN  [address |-> IF DOMAIN r.result # {} THEN r.result ELSE NULL,
         hasLinkLocalAddress |-> r.hasLinkLocalAddress]


\* hasLinkLocalAddress[addressFamily] as a condition: undefined for "Any".
Truthy(obj, key) == key \in DOMAIN obj /\ obj[key]

\* The loop of lines 195-199: the families of the new address only.
FamilyDiffers(currentAddress, address) ==
    \E family \in DOMAIN address :
        family \notin DOMAIN currentAddress \/ currentAddress[family] # address[family]

Callback(address, eventType) == [address |-> address, eventType |-> eventType]

\* detectIPChange without lines 211-217: no retry timer is ever set.
detectIPChangeNoArm(ips, addressFamily, currentAddress, checkTimer, checkTimerCounter, clientCallback) ==
    LET r == getIP(ips, addressFamily, FALSE)
        address == r.address
        eventType ==
            IF address # NULL
            THEN IF currentAddress = NULL THEN EventType.IPAssigned
                 ELSE IF FamilyDiffers(currentAddress, address) THEN EventType.IPChanged
                 ELSE EventType.Initial
            ELSE IF currentAddress # NULL THEN EventType.IPRemoved
                 ELSE EventType.Initial
        cancel == address # NULL /\ checkTimer # "null"
        arm == FALSE
    IN  [ currentAddress |-> address,
          checkTimer |-> IF cancel THEN "null" ELSE IF arm THEN "timer" ELSE checkTimer,
          checkTimerCounter |-> IF cancel THEN 0 ELSE checkTimerCounter,
          setTimeout |-> IF arm THEN 1 ELSE 0,
          clearTimeout |-> IF cancel THEN 1 ELSE 0,
          eventType |-> << eventType >>,
          callbacks |-> IF eventType # EventType.Initial /\ clientCallback
                        THEN << Callback(address, eventType) >>
                        ELSE << >>,
          resolved |-> << [allowLinkLocalAddress |-> FALSE, address |-> address,
                           hasLinkLocalAddress |-> r.hasLinkLocalAddress] >> ]

\* detectIPChange without the test of this.checkTimer on line 211: it arms a
\* timer while one is pending.
detectIPChangeArmsAgain(ips, addressFamily, currentAddress, checkTimer, checkTimerCounter, clientCallback) ==
    LET r == getIP(ips, addressFamily, FALSE)
        address == r.address
        eventType ==
            IF address # NULL
            THEN IF currentAddress = NULL THEN EventType.IPAssigned
                 ELSE IF FamilyDiffers(currentAddress, address) THEN EventType.IPChanged
                 ELSE EventType.Initial
            ELSE IF currentAddress # NULL THEN EventType.IPRemoved
                 ELSE EventType.Initial
        cancel == address # NULL /\ checkTimer # "null"
        arm == /\ address = NULL
               /\ currentAddress = NULL
               /\ Truthy(r.hasLinkLocalAddress, addressFamily)
    IN  [ currentAddress |-> address,
          checkTimer |-> IF cancel THEN "null" ELSE IF arm THEN "timer" ELSE checkTimer,
          checkTimerCounter |-> IF cancel THEN 0 ELSE checkTimerCounter,
          setTimeout |-> IF arm THEN 1 ELSE 0,
          clearTimeout |-> IF cancel THEN 1 ELSE 0,
          eventType |-> << eventType >>,
          callbacks |-> IF eventType # EventType.Initial /\ clientCallback
                        THEN << Callback(address, eventType) >>
                        ELSE << >>,
          resolved |-> << [allowLinkLocalAddress |-> FALSE, address |-> address,
                           hasLinkLocalAddress |-> r.hasLinkLocalAddress] >> ]

\* detectIPChange without the test of line 209: no address resolved is always
\* IPRemoved.
detectIPChangeAlwaysRemoved(ips, addressFamily, currentAddress, checkTimer, checkTimerCounter, clientCallback) ==
    LET r == getIP(ips, addressFamily, FALSE)
        address == r.address
        eventType ==
            IF address # NULL
            THEN IF currentAddress = NULL THEN EventType.IPAssigned
                 ELSE IF FamilyDiffers(currentAddress, address) THEN EventType.IPChanged
                 ELSE EventType.Initial
            ELSE EventType.IPRemoved
        cancel == address # NULL /\ checkTimer # "null"
        arm == /\ address = NULL
               /\ currentAddress = NULL
               /\ Truthy(r.hasLinkLocalAddress, addressFamily)
               /\ checkTimer = "null"
    IN  [ currentAddress |-> address,
          checkTimer |-> IF cancel THEN "null" ELSE IF arm THEN "timer" ELSE checkTimer,
          checkTimerCounter |-> IF cancel THEN 0 ELSE checkTimerCounter,
          setTimeout |-> IF arm THEN 1 ELSE 0,
          clearTimeout |-> IF cancel THEN 1 ELSE 0,
          eventType |-> << eventType >>,
          callbacks |-> IF eventType # EventType.Initial /\ clientCallback
                        THEN << Callback(address, eventType) >>
                        ELSE << >>,
          resolved |-> << [allowLinkLocalAddress |-> FALSE, address |-> address,
                           hasLinkLocalAddress |-> r.hasLinkLocalAddress] >> ]

\* detectIPChange calling getIP(true) on line 189: link-local addresses are
\* resolved too.
detectIPChangeAllowsLinkLocal(ips, addressFamily, currentAddress, checkTimer, checkTimerCounter, clientCallback) ==
    LET r == getIP(ips, addressFamily, TRUE)
        address == r.address
        eventType ==
            IF address # NULL
            THEN IF currentAddress = NULL THEN EventType.IPAssigned
                 ELSE IF FamilyDiffers(currentAddress, address) THEN EventType.IPChanged
                 ELSE EventType.Initial
            ELSE IF currentAddress # NULL THEN EventType.IPRemoved
                 ELSE EventType.Initial
        cancel == address # NULL /\ checkTimer # "null"
        arm == /\ address = NULL
               /\ currentAddress = NULL
               /\ Truthy(r.hasLinkLocalAddress, addressFamily)
               /\ checkTimer = "null"
    IN  [ currentAddress |-> address,
          checkTimer |-> IF cancel THEN "null" ELSE IF arm THEN "timer" ELSE checkTimer,
          checkTimerCounter |-> IF cancel THEN 0 ELSE checkTimerCounter,
          setTimeout |-> IF arm THEN 1 ELSE 0,
          clearTimeout |-> IF cancel THEN 1 ELSE 0,
          eventType |-> << eventType >>,
          callbacks |-> IF eventType # EventType.Initial /\ clientCallback
                        THEN << Callback(address, eventType) >>
                        ELSE << >>,
          resolved |-> << [allowLinkLocalAddress |-> TRUE, address |-> address,
                           hasLinkLocalAddress |-> r.hasLinkLocalAddress] >> ]

(***************************************************************************)
(* detectIPChange (lines 187-224) as a function of the fields it reads.    *)
(* It yields the new field values, whether it called setTimeout or         *)
(* clearTimeout, the client callbacks it made and what getIP returned.     *)
(***************************************************************************)
detectIPChange(ips, addressFamily, currentAddress, checkTimer, checkTimerCounter, clientCallback) ==
    LET r == getIP(ips, addressFamily, FALSE)
        address == r.address
        eventType ==
            IF address # NULL
            THEN IF currentAddress = NULL THEN EventType.IPAssigned
                 ELSE IF FamilyDiffers(currentAddress, address) THEN EventType.IPChanged
                 ELSE EventType.Initial
            ELSE IF currentAddress # NULL THEN EventType.IPRemoved
                 ELSE EventType.Initial
        cancel == address # NULL /\ checkTimer # "null"
        arm == /\ address = NULL
               /\ currentAddress = NULL
               /\ Truthy(r.hasLinkLocalAddress, addressFamily)
               /\ checkTimer = "null"
    IN  [ currentAddress |-> address,
          checkTimer |-> IF cancel THEN "null" ELSE IF arm THEN "timer" ELSE checkTimer,
          checkTimerCounter |-> IF cancel THEN 0 ELSE checkTimerCounter,
          setTimeout |-> IF arm THEN 1 ELSE 0,
          clearTimeout |-> IF cancel THEN 1 ELSE 0,
          eventType |-> << eventType >>,
          callbacks |-> IF eventType # EventType.Initial /\ clientCallback
                        THEN << Callback(address, eventType) >>
                        ELSE << >>,
          resolved |-> << [allowLinkLocalAddress |-> FALSE, address |-> address,
                           hasLinkLocalAddress |-> r.hasLinkLocalAddress] >> ]

(***************************************************************************)
(* The state.                                                              *)
(***************************************************************************)
VARIABLES
    networkInterfaces,      \* os.networkInterfaces()[networkInterface]: the bound addresses, in order
    addressFamily,          \* monitorData.addressFamily
    handle,                 \* monitorData.handle: "null" or "alloc" (a buffer from ref.alloc)
    currentAddress,         \* this.currentAddress: NULL or an object family -> address
    checkTimer,             \* this.checkTimer: "null" or "timer" (a Timeout reference)
    checkTimerCounter,      \* this.checkTimerCounter
    checkTimerMaxTries,     \* this.checkTimerMaxTries
    clientCallback,         \* whether this.clientCallback is a function (TRUE) or null (FALSE)
    subscriptions,          \* iphlpapi: active NotifyIpInterfaceChange registrations of this monitor
    pendingNotifications,   \* native notifications queued for the event loop, not yet delivered
    pendingTimers,          \* event loop: timeouts set by this monitor that have not fired or been cleared
    last,                   \* the last step: operation, return value, native call, event type, callbacks, getIP result
    stopped,                \* whether some stop() call has returned true
    fires,                  \* timer firings since a notification last armed the retry timer
    delivered,              \* the address of the last client callback ("nothing" before any, "None" or
                            \* "address"), kept while a client callback is registered ("unregistered" after)
    scenario                \* progress through the link-local-then-real scenario

vars == << networkInterfaces, addressFamily, handle, currentAddress, checkTimer,
           checkTimerCounter, checkTimerMaxTries, clientCallback, subscriptions,
           pendingNotifications, pendingTimers, last, stopped, fires, delivered,
           scenario >>

\* eventType, callbacks and resolved are sequences: empty when the step
\* classified no event, made no callback, did not call getIP.
Step(op, ret, native, eventType, callbacks, resolved) ==
    [op |-> op, ret |-> ret, native |-> native, eventType |-> eventType,
     callbacks |-> callbacks, resolved |-> resolved]

Quiet(op, ret, native) == Step(op, ret, native, << >>, << >>, << >>)


(***************************************************************************)
(* The documented link-local blocks (comments of lines 269 and 271):       *)
(* 169.254.0.0/16 and fe80::/10, decided on the numeric value of the       *)
(* address text, not on its spelling.                                      *)
(***************************************************************************)
HexDigits == <<"0","1","2","3","4","5","6","7","8","9","a","b","c","d","e","f">>

HexValue(c) == (CHOOSE i \in 1..16 : HexDigits[i] = c) - 1

\* The groups of a text between separators ("fe80::1" has groups fe80, empty, 1).
RECURSIVE Split(_, _)
Split(text, sep) ==
    IF text = <<>> THEN << <<>> >>
    ELSE LET rest == Split(Tail(text), sep) IN
         IF Head(text) = sep
         THEN << <<>> >> \o rest
         ELSE << << Head(text) >> \o Head(rest) >> \o Tail(rest)

\* The number a group of digits spells in a base (0 for the empty group).
RECURSIVE Number(_, _)
Number(digits, base) ==
    IF digits = <<>> THEN 0
    ELSE Number(SubSeq(digits, 1, Len(digits) - 1), base) * base
         + HexValue(digits[Len(digits)])

InLinkLocalBlock(ip) ==
    IF ip.family = "IPv4"
    THEN LET g == Split(ip.address, ".") IN
         Len(g) >= 2 /\ Number(g[1], 10) = 169 /\ Number(g[2], 10) = 254
    ELSE LET g == Split(ip.address, ":") IN
         Number(g[1], 16) \div 64 = 1018        \* the top ten bits of fe80

\* What the environment binds, for the monitored family or families.
Monitored(ip) == addressFamily = "Any" \/ ip.family = addressFamily
HasRoutable(ips) == \E i \in 1..Len(ips) : Monitored(ips[i]) /\ ~InLinkLocalBlock(ips[i])
HasLinkLocal(ips) == \E i \in 1..Len(ips) : Monitored(ips[i]) /\ InLinkLocalBlock(ips[i])
LinkLocalOnly(ips) == HasLinkLocal(ips) /\ ~HasRoutable(ips)
NoAddress(ips) == \A i \in 1..Len(ips) : ~Monitored(ips[i])

(***************************************************************************)
(* Observers: they record the run and change nothing of the monitor.       *)
(***************************************************************************)
\* Stages of the scenario, each reached by a step of the monitor in the
\* environment of that moment: 1 an IPv4 monitor started with no address
\* bound, 2 notified with only a link-local address bound, 3 notified or
\* timer fired with a routable address bound, 4 notified with no address
\* bound.  Stages 5 and 6 are 3 and 4 when stage 3 was a timer firing of a
\* monitor configured with no tries (checkTimerMaxTries = 0).
ScenarioNext(s) ==
    CASE s.op \in {"post", "ifchange"} -> scenario
      [] s.op = "start" ->
            IF /\ handle = "null" /\ clientCallback /\ addressFamily = "IPv4"
               /\ NoAddress(networkInterfaces) /\ s.native = "subscribe_ok"
            THEN 1 ELSE 0
      [] s.op = "notify" ->
            IF scenario = 1 /\ LinkLocalOnly(networkInterfaces) THEN 2
            ELSE IF scenario = 2 /\ HasRoutable(networkInterfaces) THEN 3
            ELSE IF scenario = 3 /\ NoAddress(networkInterfaces) THEN 4
            ELSE IF scenario = 5 /\ NoAddress(networkInterfaces) THEN 6
            ELSE 0
      [] s.op = "timer" ->
            IF scenario = 2 /\ HasRoutable(networkInterfaces)
            THEN IF checkTimerMaxTries >= 1 THEN 3 ELSE 5
            ELSE 0
      [] OTHER -> 0

\* Timer firings of the retry cycle: counted from the notification that armed
\* the timer (a timer that re-arms itself continues the cycle).
FiresNext(s) ==
    CASE s.op = "notify" /\ checkTimer = "null" /\ checkTimer' = "timer" -> 0
      [] s.op = "timer" -> fires + 1
      [] OTHER -> fires

DeliveredNext(s) ==
    IF s.op = "stop" \/ ~clientCallback THEN "unregistered"
    ELSE IF s.callbacks = << >> THEN delivered
    ELSE IF s.callbacks[1].address = NULL THEN "None" ELSE "address"

Observe(step) ==
    \E s \in { step } :
        /\ last' = s
        /\ stopped' = (stopped \/ (s.op = "stop" /\ s.ret = "true"))
        /\ fires' = FiresNext(s)
        /\ delivered' = DeliveredNext(s)
        /\ scenario' = ScenarioNext(s)

Bool(b) == IF b THEN "true" ELSE "false"

(***************************************************************************)
(* constructor (lines 72-95) with a callback function, as documented,     *)
(* followed by the optional configuration through the                      *)
(* ipCheckTimerMaxTries setter (lines 116-118).                            *)
(***************************************************************************)
Construct(ips) ==
    /\ networkInterfaces = ips
    /\ addressFamily \in AddressFamilies
    /\ handle = "null"
    /\ currentAddress = NULL
    /\ checkTimer = "null"
    /\ checkTimerCounter = 0
    /\ checkTimerMaxTries \in 0..MaxTriesBound
    /\ clientCallback = TRUE
    /\ subscriptions = 0
    /\ pendingNotifications = 0
    /\ pendingTimers = 0
    /\ last = Quiet("new", "void", "none")
    /\ stopped = FALSE
    /\ fires = 0
    /\ delivered = "nothing"
    /\ scenario = 0

Init == \E ips \in AddrLists(Pool) : Construct(ips)

\* start without lines 126-129: a started monitor subscribes again.
startNoGuard ==
    \E ok \in BOOLEAN :
        LET r == getIP(networkInterfaces, addressFamily, TRUE) IN
        /\ currentAddress' = r.address
        /\ handle' = "alloc"
        /\ subscriptions' = IF ok THEN subscriptions + 1 ELSE subscriptions
        /\ UNCHANGED << networkInterfaces, addressFamily, checkTimer,
                        checkTimerCounter, checkTimerMaxTries, clientCallback,
                        pendingNotifications, pendingTimers >>
        /\ Observe(Step("start", Bool(ok),
                        IF ok THEN "subscribe_ok" ELSE "subscribe_fail",
                        << EventType.Initial >>,
                        IF clientCallback
                        THEN << Callback(r.address, EventType.Initial) >>
                        ELSE << >>,
                        << [allowLinkLocalAddress |-> TRUE, address |-> r.address,
                            hasLinkLocalAddress |-> r.hasLinkLocalAddress] >>))

(***************************************************************************)
(* start (lines 125-145).  NotifyIpInterfaceChange succeeds or fails as    *)
(* the native layer decides; the handle buffer is allocated before the     *)
(* call and kept whatever the call returns.                                *)
(***************************************************************************)
start ==
    \E ok \in BOOLEAN :
        IF handle # "null"
        THEN /\ UNCHANGED << networkInterfaces, addressFamily, handle, currentAddress,
                             checkTimer, checkTimerCounter, checkTimerMaxTries,
                             clientCallback, subscriptions, pendingNotifications,
                             pendingTimers >>
             /\ Observe(Quiet("start", "true", "none"))
        ELSE LET r == getIP(networkInterfaces, addressFamily, TRUE) IN
             /\ currentAddress' = r.address
             /\ handle' = "alloc"
             /\ subscriptions' = IF ok THEN subscriptions + 1 ELSE subscriptions
             /\ UNCHANGED << networkInterfaces, addressFamily, checkTimer,
                             checkTimerCounter, checkTimerMaxTries, clientCallback,
                             pendingNotifications, pendingTimers >>
             /\ Observe(Step("start", Bool(ok),
                             IF ok THEN "subscribe_ok" ELSE "subscribe_fail",
                             << EventType.Initial >>,
                             IF clientCallback
                             THEN << Callback(r.address, EventType.Initial) >>
                             ELSE << >>,
                             << [allowLinkLocalAddress |-> TRUE, address |-> r.address,
                                 hasLinkLocalAddress |-> r.hasLinkLocalAddress] >>))

\* cancelNotification that forgets the handle whatever the native call returns.
cancelNotificationDropsHandle(h, ok) ==
    [ handle |-> "null",
      native |-> IF h = "null" THEN "none" ELSE IF ok THEN "cancel_ok" ELSE "cancel_fail" ]

(***************************************************************************)
(* cancelNotification (lines 157-163) on the handle, with the result of    *)
(* CancelMibChangeNotify2 should it be called: the handle afterwards and   *)
(* the native call made.                                                   *)
(***************************************************************************)
cancelNotification(h, ok) ==
    [ handle |-> IF h # "null" /\ ok THEN "null" ELSE h,
      native |-> IF h = "null" THEN "none" ELSE IF ok THEN "cancel_ok" ELSE "cancel_fail" ]

\* stop without line 152: the client callback stays registered.
stopKeepsCallback ==
    \E ok \in BOOLEAN :
        LET c == cancelNotification(handle, ok) IN
        /\ handle' = c.handle
        /\ subscriptions' = IF c.native = "cancel_ok" /\ subscriptions > 0
                            THEN subscriptions - 1 ELSE subscriptions
        /\ UNCHANGED << networkInterfaces, addressFamily, currentAddress, checkTimer,
                        checkTimerCounter, checkTimerMaxTries, clientCallback,
                        pendingNotifications, pendingTimers >>
        /\ Observe(Quiet("stop", Bool(c.handle = "null"), c.native))

(***************************************************************************)
(* stop (lines 151-154).  CancelMibChangeNotify2 succeeds or fails as the  *)
(* native layer decides; a successful call ends the registration.          *)
(***************************************************************************)
stop ==
    \E ok \in BOOLEAN :
        LET c == cancelNotification(handle, ok) IN
        /\ clientCallback' = FALSE
        /\ handle' = c.handle
        /\ subscriptions' = IF c.native = "cancel_ok" /\ subscriptions > 0
                            THEN subscriptions - 1 ELSE subscriptions
        /\ UNCHANGED << networkInterfaces, addressFamily, currentAddress, checkTimer,
                        checkTimerCounter, checkTimerMaxTries, pendingNotifications,
                        pendingTimers >>
        /\ Observe(Quiet("stop", Bool(c.handle = "null"), c.native))

(***************************************************************************)
(* The native layer signals a change of the interface to a registered      *)
(* callback (lines 87-91); ffi queues the call for the event loop.         *)
(***************************************************************************)
NativeNotification ==
    /\ subscriptions > 0
    /\ pendingNotifications < MaxPending
    /\ pendingNotifications' = pendingNotifications + 1
    /\ UNCHANGED << networkInterfaces, addressFamily, handle, currentAddress, checkTimer,
                    checkTimerCounter, checkTimerMaxTries, clientCallback, subscriptions,
                    pendingTimers >>
    /\ Observe(Quiet("post", "void", "none"))

(***************************************************************************)
(* onNotifyIpInterfaceChange (lines 166-168): a queued notification runs.  *)
(***************************************************************************)
onNotifyIpInterfaceChange ==
    /\ pendingNotifications > 0
    /\ \E d \in { detectIPChange(networkInterfaces, addressFamily, currentAddress,
                               checkTimer, checkTimerCounter, clientCallback) } :
       /\ pendingNotifications' = pendingNotifications - 1
       /\ currentAddress' = d.currentAddress
       /\ checkTimer' = d.checkTimer
       /\ checkTimerCounter' = d.checkTimerCounter
       /\ pendingTimers' = pendingTimers + d.setTimeout - d.clearTimeout
       /\ UNCHANGED << networkInterfaces, addressFamily, handle, checkTimerMaxTries,
                       clientCallback, subscriptions >>
       /\ Observe(Step("notify", "void", "none", d.eventType, d.callbacks, d.resolved))

\* onCheckTimer comparing with <= on line 173: one more try.
onCheckTimerInclusive ==
    /\ pendingTimers > 0
    /\ IF checkTimerCounter <= checkTimerMaxTries
       THEN \E d \in { detectIPChange(networkInterfaces, addressFamily, currentAddress,
                                    "null", checkTimerCounter + 1, clientCallback) } :
            /\ currentAddress' = d.currentAddress
            /\ checkTimer' = d.checkTimer
            /\ checkTimerCounter' = d.checkTimerCounter
            /\ pendingTimers' = pendingTimers - 1 + d.setTimeout - d.clearTimeout
            /\ Observe(Step("timer", "void", "none", d.eventType, d.callbacks, d.resolved))
       ELSE /\ checkTimer' = "null"
            /\ checkTimerCounter' = 0
            /\ pendingTimers' = pendingTimers - 1
            /\ UNCHANGED currentAddress
            /\ Observe(Quiet("timer", "void", "none"))
    /\ UNCHANGED << networkInterfaces, addressFamily, handle, checkTimerMaxTries,
                    clientCallback, subscriptions, pendingNotifications >>

(***************************************************************************)
(* onCheckTimer (lines 171-179): a pending timeout fires.  The reference   *)
(* is cleared first; the counter is compared, then incremented.            *)
(***************************************************************************)
onCheckTimer ==
    /\ pendingTimers > 0
    /\ IF checkTimerCounter < checkTimerMaxTries
       THEN \E d \in { detectIPChange(networkInterfaces, addressFamily, currentAddress,
                                    "null", checkTimerCounter + 1, clientCallback) } :
            /\ currentAddress' = d.currentAddress
            /\ checkTimer' = d.checkTimer
            /\ checkTimerCounter' = d.checkTimerCounter
            /\ pendingTimers' = pendingTimers - 1 + d.setTimeout - d.clearTimeout
            /\ Observe(Step("timer", "void", "none", d.eventType, d.callbacks, d.resolved))
       ELSE /\ checkTimer' = "null"
            /\ checkTimerCounter' = 0
            /\ pendingTimers' = pendingTimers - 1
            /\ UNCHANGED currentAddress
            /\ Observe(Quiet("timer", "void", "none"))
    /\ UNCHANGED << networkInterfaces, addressFamily, handle, checkTimerMaxTries,
                    clientCallback, subscriptions, pendingNotifications >>

(***************************************************************************)
(* The environment binds or removes one address: what                      *)
(* os.networkInterfaces() (line 233) returns from now on.                  *)
(***************************************************************************)
RemoveAt(ips, i) == SubSeq(ips, 1, i - 1) \o SubSeq(ips, i + 1, Len(ips))

IsIPv4(ip) == ip.family = "IPv4"
IsIPv6(ip) == ip.family = "IPv6"

\* A new entry goes last among the entries of its family.
Insert(ips, ip) ==
    IF ip.family = "IPv6" THEN Append(ips, ip)
    ELSE SelectSeq(ips, IsIPv4) \o << ip >> \o SelectSeq(ips, IsIPv6)

Neighbours(ips) ==
    { RemoveAt(ips, i) : i \in 1..Len(ips) }
    \cup { Insert(ips, ip) : ip \in { q \in Pool : Len(ips) < MaxAddrs
                                                   /\ \A i \in 1..Len(ips) : ips[i] # q } }

InterfaceChange ==
    \E ips \in Neighbours(networkInterfaces) :
        /\ networkInterfaces' = ips
        /\ UNCHANGED << addressFamily, handle, currentAddress, checkTimer,
                        checkTimerCounter, checkTimerMaxTries, clientCallback,
                        subscriptions, pendingNotifications, pendingTimers >>
        /\ Observe(Quiet("ifchange", "void", "none"))

Next ==
    \/ start
    \/ stop
    \/ NativeNotification
    \/ onNotifyIpInterfaceChange
    \/ onCheckTimer
    \/ InterfaceChange

Spec == Init /\ [][Next]_vars

\* The finalizer without the test of line 64: it warns and cancels whatever
\* the handle is.
finalizerNoGuard ==
    \E ok \in BOOLEAN : \E c \in { cancelNotification(handle, ok) } :
        /\ pendingTimers = 0
        /\ handle' = c.handle
        /\ subscriptions' = IF c.native = "cancel_ok" /\ subscriptions > 0
                            THEN subscriptions - 1 ELSE subscriptions
        /\ UNCHANGED << networkInterfaces, addressFamily, currentAddress, checkTimer,
                        checkTimerCounter, checkTimerMaxTries, clientCallback,
                        pendingNotifications, pendingTimers >>
        /\ Observe(Quiet("finalizer", "void", c.native) @@ [warning |-> TRUE])

(***************************************************************************)
(* finalizer (lines 63-69): the callback of the FinalizationRegistry, run  *)
(* on monitorData once the instance registered on line 94 is unreachable.  *)
(* A pending timeout keeps the instance reachable through its closure      *)
(* (lines 213-215).  The step records whether warning() was called.        *)
(***************************************************************************)
finalizer ==
    \E ok \in BOOLEAN : \E c \in { cancelNotification(handle, ok) } :
        /\ pendingTimers = 0
        /\ IF handle # "null"
           THEN /\ handle' = c.handle
                /\ subscriptions' = IF c.native = "cancel_ok" /\ subscriptions > 0
                                    THEN subscriptions - 1 ELSE subscriptions
                /\ Observe(Quiet("finalizer", "void", c.native) @@ [warning |-> TRUE])
           ELSE /\ UNCHANGED << handle, subscriptions >>
                /\ Observe(Quiet("finalizer", "void", "none") @@ [warning |-> FALSE])
        /\ UNCHANGED << networkInterfaces, addressFamily, currentAddress, checkTimer,
                        checkTimerCounter, checkTimerMaxTries, clientCallback,
                        pendingNotifications, pendingTimers >>

(***************************************************************************)
(* The life of an instance on an interface whose addresses stay as they    *)
(* are, from its construction to its finalization: a finalized instance    *)
(* takes no further step.                                                  *)
(***************************************************************************)
Alive == last.op # "finalizer"

NextLifetime ==
    \/ Alive /\ start
    \/ Alive /\ stop
    \/ Alive /\ NativeNotification
    \/ Alive /\ onNotifyIpInterfaceChange
    \/ Alive /\ onCheckTimer
    \/ Alive /\ finalizer

SpecLifetime == Init /\ [][NextLifetime]_vars

(***************************************************************************)
(* The event loop fires a timeout that is pending (lines 213-215): timers  *)
(* eventually fire.  Nothing obliges the caller, the environment or the    *)
(* native layer to act.                                                    *)
(***************************************************************************)
SpecPolling == Init /\ [][Next]_vars /\ WF_vars(onCheckTimer)

(***************************************************************************)
(* The resolver alone: getIP applied to every list of the resolver's pool, *)
(* for every family filter, with and without link-local addresses allowed. *)
(***************************************************************************)
InitResolver == \E ips \in AddrLists(ResolverPool) : Construct(ips)

Resolve ==
    \E ips \in AddrLists(ResolverPool), allowLinkLocalAddress \in BOOLEAN :
        LET r == getIP(ips, addressFamily, allowLinkLocalAddress) IN
        /\ networkInterfaces' = ips
        /\ last' = Step("getIP", "void", "none", << >>, << >>,
                        << [allowLinkLocalAddress |-> allowLinkLocalAddress,
                            address |-> r.address,
                            hasLinkLocalAddress |-> r.hasLinkLocalAddress] >>)
        /\ UNCHANGED << addressFamily, handle, currentAddress, checkTimer,
                        checkTimerCounter, checkTimerMaxTries, clientCallback,
                        subscriptions, pendingNotifications, pendingTimers,
                        stopped, fires, delivered, scenario >>

NextResolver == Resolve

SpecResolver == InitResolver /\ [][NextResolver]_vars

(***************************************************************************)
(* The claims.                                                             *)
(***************************************************************************)
\* A step of the monitor that ran detectIPChange.
Detected(s) == s.op \in {"notify", "timer"} /\ s.resolved # << >>

\* C1 Post-stop silence: once a stop() call has returned true, no step makes
\* a client callback, whatever notification or timer firing is delivered.
PostStopSilence == stopped => last.callbacks = << >>

\* C1 witness: after a stop() that returned true, a delivered notification or
\* timer firing classified an event other than Initial.
PostStopSilenceWitness ==
    /\ stopped
    /\ Detected(last)
    /\ last.eventType # << EventType.Initial >>

\* C2 Idempotent start/stop: of two consecutive start() calls whose native
\* subscribe succeeds, both return true, the second never subscribes, and
\* when the first subscribed exactly one subscription is active; of two
\* consecutive stop() calls whose native unsubscribe succeeds, both return
\* true and at most one of them calls the native unsubscribe.
IdempotentStartStop ==
    [][ /\ ( /\ last.op = "start" /\ last'.op = "start"
             /\ last.native # "subscribe_fail" /\ last'.native # "subscribe_fail" )
           => /\ last.ret = "true" /\ last'.ret = "true"
              /\ last'.native = "none"
              /\ last.native = "subscribe_ok" => subscriptions' = 1
        /\ ( /\ last.op = "stop" /\ last'.op = "stop"
             /\ last.native # "cancel_fail" /\ last'.native # "cancel_fail" )
           => /\ last.ret = "true" /\ last'.ret = "true"
              /\ ~(last.native = "cancel_ok" /\ last'.native = "cancel_ok") ]_vars

\* C2 witness: a start() that found the monitor started made no native call
\* and returned true, with the one subscription of the first start() active.
IdempotentStartStopWitness ==
    /\ last.op = "start" /\ last.native = "none" /\ last.ret = "true"
    /\ handle = "alloc" /\ subscriptions = 1

\* C3 Initial event on start: every start() made with no handle stored (the
\* first one, and a re-start after stop()) makes exactly one callback, of
\* type Initial, with the link-local-inclusive resolution of the interface.
InitialOnStart ==
    (last.op = "start" /\ last.resolved # << >>)
        => last.callbacks =
             << Callback(getIP(networkInterfaces, addressFamily, TRUE).address,
                         EventType.Initial) >>

\* The event the classification table gives for previous address P and new
\* address N: a sequence, empty for no event.
TableEvent(P, N) ==
    IF P = NULL /\ N = NULL THEN << >>
    ELSE IF P = NULL THEN << EventType.IPAssigned >>
    ELSE IF N = NULL THEN << EventType.IPRemoved >>
    ELSE IF P # N THEN << EventType.IPChanged >>
    ELSE << >>

\* An address object that holds no link-local address (None included).
NoLinkLocalIn(obj) ==
    obj = NULL \/ \A f \in DOMAIN obj : ~InLinkLocalBlock(IP(f, obj[f]))

\* C4 Classification table: a detectIPChange with a registered callback, from
\* stored address P to resolved address N, makes the one callback the table
\* gives (with N), or none where the table gives none.  The table is asked
\* only of stored addresses that hold no link-local address, which are the
\* ones an earlier resolution without link-local addresses can have stored.
ClassificationTable ==
    [][ (Detected(last') /\ clientCallback /\ NoLinkLocalIn(currentAddress))
          => LET P == currentAddress
                 N == getIP(networkInterfaces, addressFamily, FALSE).address
                 e == TableEvent(P, N)
             IN  last'.callbacks =
                   IF e = << >> THEN << >> ELSE << Callback(N, e[1]) >> ]_vars

\* C5 Subscription failure: a start() whose native subscribe fails returns
\* false and stores no handle, and a start() that makes no native call is one
\* of a monitor whose subscription is active.
SubscriptionFailure ==
    /\ (last.op = "start" /\ last.native = "subscribe_fail")
          => (last.ret = "false" /\ handle = "null")
    /\ (last.op = "start" /\ last.native = "none") => subscriptions > 0

\* C6 Unsubscription failure: a stop() whose native unsubscribe fails returns
\* false and leaves the handle (and the subscription) as it was; every stop()
\* of a monitor holding a handle calls the native unsubscribe, and when that
\* succeeds stop() returns true and the handle is cleared.
UnsubscriptionFailure ==
    [][ last'.op = "stop"
          => /\ handle # "null" => last'.native \in {"cancel_ok", "cancel_fail"}
             /\ last'.native = "cancel_fail"
                  => /\ last'.ret = "false"
                     /\ handle' = handle
                     /\ subscriptions' = subscriptions
             /\ last'.native = "cancel_ok"
                  => (last'.ret = "true" /\ handle' = "null") ]_vars

\* C6 witness: a stop() of a subscribed monitor whose native unsubscribe
\* failed: it returned false, handle and subscription are still there.
UnsubscriptionFailureWitness ==
    /\ last.op = "stop" /\ last.native = "cancel_fail" /\ last.ret = "false"
    /\ handle = "alloc" /\ subscriptions = 1

\* C7 as stated: in a retry cycle, counted from the notification that armed
\* the timer, the retry timer fires at most checkTimerMaxTries times.
RetryBoundStated == fires <= checkTimerMaxTries

\* C7 amended: in a retry cycle, counted from the notification that armed the
\* timer, the retry timer fires at most checkTimerMaxTries + 1 times (the
\* last firing only gives up), and after that firing no timer is pending nor
\* referenced.
RetryBound ==
    /\ fires <= checkTimerMaxTries + 1
    /\ fires = checkTimerMaxTries + 1 => (pendingTimers = 0 /\ checkTimer = "null")

\* C7 witness: with only a link-local address bound, the timer has fired
\* checkTimerMaxTries + 1 times since the notification armed it, for a monitor
\* configured with at least one try.
RetryBoundWitness ==
    /\ checkTimerMaxTries >= 1
    /\ fires = checkTimerMaxTries + 1
    /\ last.op = "timer"
    /\ LinkLocalOnly(networkInterfaces)

\* C8 Retry cancellation: a detectIPChange that resolves a routable address,
\* run by a notification while the timer is pending or by the timer's own
\* firing, leaves no timer pending and the attempt counter at 0.
RetryCancellation ==
    [][ ( /\ Detected(last')
          /\ last'.resolved[1].address # NULL
          /\ (last'.op = "timer" \/ checkTimer # "null") )
          => /\ checkTimer' = "null"
             /\ pendingTimers' = 0
             /\ checkTimerCounter' = 0 ]_vars

\* The entries of the interface the family filter lets through.
Matching(ips) == { i \in 1..Len(ips) : Monitored(ips[i]) }

\* C9 Link-local exclusion in the resolver: with allowLinkLocal false the
\* address set holds no address of 169.254.0.0/16 or fe80::/10 and is None
\* when no matching entry is routable; the flag of a family is true exactly
\* when a matching link-local entry of that family is bound; with
\* allowLinkLocal true the link-local address of a family is in the address
\* set (getIP keeps one address per family, the last matching entry, so this
\* is asked of a family whose matching entries are all link-local).
ResolverLinkLocal ==
    last.op = "getIP" =>
        LET r == last.resolved[1]
            ips == networkInterfaces
            Of(f) == { i \in Matching(ips) : ips[i].family = f }
        IN  /\ ~r.allowLinkLocalAddress =>
                 /\ r.address # NULL =>
                      \A f \in DOMAIN r.address : ~InLinkLocalBlock(IP(f, r.address[f]))
                 /\ (\A i \in Matching(ips) : InLinkLocalBlock(ips[i])) => r.address = NULL
            /\ \A f \in Families :
                 r.hasLinkLocalAddress[f] <=> \E i \in Of(f) : InLinkLocalBlock(ips[i])
            /\ r.allowLinkLocalAddress =>
                 \A f \in Families :
                     (Of(f) # {} /\ \A i \in Of(f) : InLinkLocalBlock(ips[i]))
                         => /\ r.address # NULL
                            /\ f \in DOMAIN r.address
                            /\ \E i \in Of(f) : r.address[f] = ips[i].address

\* The callbacks of a scenario stage that assigns a routable IPv4 address.
AssignedCallbacks ==
    { << Callback([f \in {"IPv4"} |-> networkInterfaces[i].address], EventType.IPAssigned) >> :
        i \in { k \in 1..Len(networkInterfaces) :
                  Monitored(networkInterfaces[k]) /\ ~InLinkLocalBlock(networkInterfaces[k]) } }

\* What the scenario expects of the step that reached the stages in `third`
\* and `fourth` (and of the first two stages).
ScenarioExpected(third, fourth) ==
    last.op \in {"start", "notify", "timer"} =>
        /\ scenario = 1 => last.callbacks = << Callback(NULL, EventType.Initial) >>
        /\ scenario = 2 => /\ last.callbacks = << >>
                           /\ checkTimer = "timer" /\ pendingTimers = 1
        /\ scenario \in third => /\ last.callbacks \in AssignedCallbacks
                                 /\ checkTimer = "null" /\ pendingTimers = 0
        /\ scenario \in fourth => last.callbacks = << Callback(NULL, EventType.IPRemoved) >>

\* C10 as stated: the scenario's callbacks, whether the routable address is
\* met by a notification or by a timer firing.
ScenarioStated == ScenarioExpected({3, 5}, {4, 6})

\* C10 amended: the scenario's callbacks, the routable address being met by a
\* notification, or by a timer firing of a monitor with checkTimerMaxTries >= 1.
Scenario == ScenarioExpected({3}, {4})

\* C10 witness: the whole scenario has run, ending with the removal's callback.
ScenarioWitness ==
    /\ scenario = 4 /\ last.op = "notify"
    /\ last.callbacks = << Callback(NULL, EventType.IPRemoved) >>

\* C11 Handle invariant: whenever a handle is stored, a native subscription
\* of this monitor is active.
HandleInvariant == handle # "null" => subscriptions > 0

\* C12 stop() cancels the retry timer: when stop() returns no retry timer is
\* pending nor referenced, and a timer firing that follows a stop() resolves
\* nothing, leaves currentAddress alone and arms no timer.
StopCancelsTimer ==
    [][ /\ last'.op = "stop" => (pendingTimers' = 0 /\ checkTimer' = "null")
        /\ (last.op = "stop" /\ last'.op = "timer")
              => /\ last'.resolved = << >>
                 /\ currentAddress' = currentAddress
                 /\ pendingTimers' = 0 ]_vars

\* C13 Retry arming for every family setting: a detectIPChange that resolves
\* no address, with currentAddress None before it, a link-local address bound
\* in a monitored family and no timer pending when it runs, arms the retry
\* timer and makes no callback.
RetryArming ==
    [][ ( /\ Detected(last')
          /\ last'.resolved[1].address = NULL
          /\ currentAddress = NULL
          /\ HasLinkLocal(networkInterfaces)
          /\ (last'.op = "timer" \/ checkTimer = "null") )
          => /\ checkTimer' = "timer"
             /\ pendingTimers' > 0
             /\ last'.callbacks = << >> ]_vars

\* C14 Partial-family loss is IPChanged: for a monitor of family Any with a
\* registered callback whose stored address holds both families (no
\* link-local address), a detectIPChange that resolves one family only, its
\* address unchanged, calls back with that address and IPChanged.
PartialFamilyLoss ==
    [][ ( /\ Detected(last')
          /\ clientCallback
          /\ addressFamily = "Any"
          /\ currentAddress # NULL
          /\ DOMAIN currentAddress = Families
          /\ NoLinkLocalIn(currentAddress)
          /\ LET N == last'.resolved[1].address
             IN  /\ N # NULL
                 /\ Cardinality(DOMAIN N) = 1
                 /\ \A f \in DOMAIN N : N[f] = currentAddress[f] )
          => last'.callbacks =
                << Callback(last'.resolved[1].address, EventType.IPChanged) >> ]_vars

\* C16 At most one retry timer: in every state at most one timeout set by the
\* monitor is pending.
AtMostOneTimer == pendingTimers <= 1

\* C16 witness: a notification was delivered while a retry timer was pending
\* and only a link-local address was bound: the one timer is still pending.
AtMostOneTimerWitness ==
    /\ last.op = "notify"
    /\ last.resolved[1].address = NULL
    /\ Truthy(last.resolved[1].hasLinkLocalAddress, addressFamily)
    /\ checkTimerCounter > 0
    /\ pendingTimers = 1

\* The fields of the monitor.
monitorState == << handle, currentAddress, checkTimer, checkTimerCounter, clientCallback >>

\* C17 No-op transitions: start() of a monitor that holds a handle and stop()
\* of a monitor that holds none return true, make no native call and no
\* callback, and leave handle, currentAddress, the retry timer, its counter
\* and the registered client callback unchanged.
NoOpTransitions ==
    [][ ( \/ (last'.op = "start" /\ handle # "null")
          \/ (last'.op = "stop" /\ handle = "null") )
          => /\ last'.ret = "true"
             /\ last'.native = "none"
             /\ last'.callbacks = << >>
             /\ UNCHANGED monitorState
             /\ UNCHANGED pendingTimers ]_vars

\* A retry timer is pending and has not fired since it was armed, for a
\* running monitor with at least one try configured that stores no address,
\* and a routable address of the monitored family is bound.
PollingArmed ==
    /\ clientCallback
    /\ checkTimerMaxTries >= 1
    /\ pendingTimers > 0
    /\ fires = 0
    /\ currentAddress = NULL
    /\ HasRoutable(networkInterfaces)

\* C15 Fallback polling liveness: from such a state the routable address is
\* eventually detected by a timer firing, unless the address goes away, the
\* monitor is stopped or a native notification is signalled first.
FallbackPolling ==
    PollingArmed ~> ( \/ currentAddress # NULL
                      \/ ~HasRoutable(networkInterfaces)
                      \/ ~clientCallback
                      \/ pendingNotifications > 0 )

\* C20 Well-formed event stream: a step that makes a client callback makes
\* Initial exactly when no callback was made before (the first callback is
\* Initial, and Initial comes once), IPAssigned only when the callback before
\* carried None, IPRemoved and IPChanged only when it carried an address; no
\* callback at all is made once the client callback is unregistered.
EventStream ==
    [][ last'.callbacks # << >>
          => LET e == last'.callbacks[1].eventType
             IN  /\ (e = EventType.Initial) <=> (delivered = "nothing")
                 /\ e = EventType.IPAssigned => delivered = "None"
                 /\ e \in {EventType.IPRemoved, EventType.IPChanged}
                       => delivered = "address" ]_vars

\* C20 witness: a timer firing made an IPAssigned callback, the callback
\* before it (Initial) having carried None.
EventStreamWitness ==
    /\ last.op = "timer"
    /\ last.callbacks # << >>
    /\ last.callbacks[1].eventType = EventType.IPAssigned
    /\ delivered = "address"

\* C18 Finalization safety net: the finalizer warns, and calls the native
\* unsubscribe, exactly when the handle is stored at that time; an instance
\* finalized after a stop() that returned true gets no warning and no native
\* call.
FinalizationSafetyNet ==
    [][ last'.op = "finalizer"
          => /\ last'.warning <=> handle # "null"
             /\ last'.native # "none" <=> handle # "null"
             /\ (last.op = "stop" /\ last.ret = "true")
                   => (~last'.warning /\ last'.native = "none") ]_vars

\* C18 witness: a monitor left subscribed was finalized: the finalizer warned
\* and its native unsubscribe ended the subscription.
FinalizationSafetyNetWitness ==
    /\ last.op = "finalizer"
    /\ last.warning
    /\ last.native = "cancel_ok"
    /\ handle = "null" /\ subscriptions = 0

\* C19 No spurious event: on an interface whose bound addresses stay as they
\* were when start() or detectIPChange last resolved them, a delivered native
\* notification makes no client callback.
NoSpuriousEvent == last.op = "notify" => last.callbacks = << >>

\* C21 Event payload invariant: after a detectIPChange, an IPAssigned or
\* IPChanged callback it made carries an address object that is not None,
\* holds no address of a link-local block and is the stored currentAddress;
\* an IPRemoved callback carries None; and, callback or not, currentAddress
\* is the address just resolved.
EventPayload ==
    Detected(last) =>
        /\ currentAddress = last.resolved[1].address
        /\ \A i \in 1..Len(last.callbacks) :
             LET c == last.callbacks[i] IN
             /\ c.eventType \in {EventType.IPAssigned, EventType.IPChanged}
                   => /\ c.address # NULL
                      /\ NoLinkLocalIn(c.address)
                      /\ c.address = currentAddress
             /\ c.eventType = EventType.IPRemoved => c.address = NULL

\* C21 witness: a detectIPChange made an IPChanged callback while a
\* link-local address of a monitored family was bound too.
EventPayloadWitness ==
    /\ Detected(last)
    /\ last.callbacks # << >>
    /\ last.callbacks[1].eventType = EventType.IPChanged
    /\ HasLinkLocal(networkInterfaces)

====
